---------------------------- MODULE Spec2Model ----------------------------
(***************************************************************************)
(* The message flow state machine of ssl/statem.c: state_machine() with    *)
(* its two sub-state machines read_state_machine() and                     *)
(* write_state_machine(), and the small API around it (statem_clear,       *)
(* statem_set_renegotiate, statem_set_error,                               *)
(* statem_client_app_data_allowed).                                        *)
(*                                                                         *)
(* A call of state_machine() is a sequence of steps: Enter (lines 167-333),*)
(* then the outer loop (LoopTop) dispatching into the sub-state steps, and *)
(* the return through the "end" label.  pc is the position of the call in  *)
(* the code; the record layer, the handshake vtable and the allocators are *)
(* the environment and answer nondeterministically.                        *)
(***************************************************************************)
EXTENDS Integers, Sequences, FiniteSets, TLC

(***************************************************************************)
(* Bounds of the model.                                                    *)
(***************************************************************************)
\* number of state_machine() calls explored
MaxCalls == 3
\* number of vtable invocations explored
MaxVt == 4
\* largest message size / max_message_size() value drawn
MaxMsgSize == 1
\* number of heartbeat requests explored
MaxHb == 1
\* number of vtable invocations a handshake may take where it is to complete
LiveVt == 6

(***************************************************************************)
(* Program constants (ssl.h, ssl3.h, dtls1.h values used by statem.c).     *)
(***************************************************************************)
SSL3_VERSION_MAJOR == 3
DTLS1_VERSION == 65279
DTLS1_BAD_VER == 256
TLS_ANY_VERSION == 65536

\* the values of s->version drawn: TLS 1.2 (0x0303), SSL 2 (0x0002), DTLS 1.0,
\* the pre-standard DTLS version and the version-flexible sentinel
Versions == {771, 2, DTLS1_VERSION, DTLS1_BAD_VER, TLS_ANY_VERSION}

\* v & 0xff00 for the versions above
AndFF00(v) == ((v \div 256) % 256) * 256
\* v >> 8
Shr8(v) == v \div 256

FlowStates == {"MSG_FLOW_UNINITED", "MSG_FLOW_RENEGOTIATE", "MSG_FLOW_WRITING",
               "MSG_FLOW_READING", "MSG_FLOW_FINISHED", "MSG_FLOW_ERROR"}
ReadStates == {"READ_STATE_HEADER", "READ_STATE_BODY", "READ_STATE_POST_PROCESS"}
WriteStates == {"WRITE_STATE_TRANSITION", "WRITE_STATE_PRE_WORK",
                "WRITE_STATE_SEND", "WRITE_STATE_POST_WORK"}
WorkStates == {"WORK_ERROR", "WORK_FINISHED_STOP", "WORK_FINISHED_CONTINUE",
               "WORK_MORE_A", "WORK_MORE_B"}
WorkMore == {"WORK_MORE_A", "WORK_MORE_B"}
MsgProcessReturns == {"MSG_PROCESS_ERROR", "MSG_PROCESS_FINISHED_READING",
                      "MSG_PROCESS_CONTINUE_PROCESSING", "MSG_PROCESS_CONTINUE_READING"}
WriteTrans == {"WRITE_TRAN_ERROR", "WRITE_TRAN_CONTINUE", "WRITE_TRAN_FINISHED"}
HandStates == {"TLS_ST_BEFORE", "TLS_ST_OK", "TLS_ST_CW_CLNT_HELLO",
               "TLS_ST_CW_CHANGE"}
LegacyStates == {"SSL_ST_BEFORE", "SSL_ST_ACCEPT", "SSL_ST_CONNECT", "SSL_ST_ERR"}
ReadSteps == ReadStates
WriteSteps == WriteStates

VARIABLES
    \* STATEM (s->statem)
    state,                  \* st->state, the message flow state
    read_state,             \* st->read_state
    write_state,            \* st->write_state
    read_state_work,        \* st->read_state_work
    write_state_work,       \* st->write_state_work
    hand_state,             \* st->hand_state
    read_state_first_init,  \* st->read_state_first_init
    use_timer,              \* st->use_timer
    \* SSL (s)
    s_state,                \* s->state, the legacy state field
    server,                 \* s->server
    in_handshake,           \* s->in_handshake
    first_packet,           \* s->first_packet
    init_buf,               \* s->init_buf != NULL
    dtls,                   \* SSL_IS_DTLS(s)
    has_cb,                 \* an info callback is installed
    \* the running call of state_machine()
    pc,                     \* position of the call ("idle": no call running)
    server_arg,             \* the argument "server" of the call
    ret,                    \* the value the last call returned (0: no call yet)
    ssret,                  \* the local ssret ("none": not yet assigned)
    \* observation of what the calls did
    last_op,                \* the API operation that acted last
    entry_state,            \* st->state when the last call was entered
    did_init,               \* the last call ran the initialisation block
    susp,                   \* the step at which the last call suspended on NBIO
    resume_from,            \* susp of the call before, when this call follows it
    first_step,             \* the first sub-state step this call executed
    alert,                  \* the alert the last call sent (ssl3_send_alert)
    n_alerts,               \* alerts sent
    n_start,                \* SSL_CB_HANDSHAKE_START events
    n_exit,                 \* SSL_CB_ACCEPT_EXIT / SSL_CB_CONNECT_EXIT events
    n_calls,                \* calls of state_machine()
    n_vt,                   \* invocations of transition, process_message,
                            \* post_process_message, pre_work,
                            \* construct_message, post_work
    n_written,              \* messages statem_do_write() wrote
    \* the heartbeat extension (s->tlsext_hb_pending, s->tlsext_hb_seq)
    hb_pending,             \* a HeartbeatResponse is awaited
    hb_seq,                 \* the heartbeat sequence number
    \* observation of the step taken last
    trace,                  \* the external calls the step made, in order:
                            \* <<name, argument or value obtained, result>>
    init_step,              \* the step at which the initialisation block of
                            \* the last call ended ("none": not run, or passed)
    construct_failed        \* construct_message() returned 0 for the message
                            \* of the write cycle in WRITE_STATE_SEND

statem == <<state, read_state, write_state, read_state_work, write_state_work,
            hand_state, read_state_first_init, use_timer>>
conn == <<s_state, server, in_handshake, first_packet, init_buf, dtls, has_cb>>
call == <<pc, server_arg, ret, ssret>>
obs == <<last_op, entry_state, did_init, susp, resume_from, first_step,
         alert, n_alerts, n_start, n_exit, n_calls, n_vt, n_written>>
hb == <<hb_pending, hb_seq>>
mon == <<trace, init_step, construct_failed>>
vars == <<statem, conn, call, obs, hb, mon>>

\* an entry of the trace
T(name, data, result) == <<name, data, result>>
\* the info callback, when one is installed
Cb(event) == IF has_cb THEN <<T("cb", event, "1")>> ELSE <<>>

(***************************************************************************)
(* The state after construction: the SSL object is zeroed, SSL_clear() has *)
(* put the legacy state into the "before" phase and statem_clear() the     *)
(* message flow state into MSG_FLOW_UNINITED.                              *)
(***************************************************************************)
\* the connection and the observation of it, but for the count n_vt of the
\* vtable invocations
Constructed ==
    /\ state = "MSG_FLOW_UNINITED"
    /\ read_state = "READ_STATE_HEADER"
    /\ write_state = "WRITE_STATE_TRANSITION"
    /\ read_state_work = "WORK_ERROR"
    /\ write_state_work = "WORK_ERROR"
    /\ hand_state = "TLS_ST_BEFORE"
    /\ read_state_first_init = FALSE
    /\ use_timer = FALSE
    /\ s_state = "SSL_ST_BEFORE"
    /\ server = FALSE
    /\ in_handshake = 0
    /\ first_packet = FALSE
    /\ init_buf = FALSE
    /\ dtls \in BOOLEAN
    /\ has_cb \in BOOLEAN
    /\ pc = "idle"
    /\ server_arg = FALSE
    /\ ret = 0
    /\ ssret = "none"
    /\ last_op = "none"
    /\ entry_state = "none"
    /\ did_init = FALSE
    /\ susp = "none"
    /\ resume_from = "none"
    /\ first_step = "none"
    /\ alert = "none"
    /\ n_alerts = 0
    /\ n_start = 0
    /\ n_exit = 0
    /\ n_calls = 0
    /\ n_written = 0
    /\ hb_pending = FALSE
    /\ hb_seq = 0
    /\ trace = <<>>
    /\ init_step = "none"
    /\ construct_failed = FALSE

Init == Constructed /\ n_vt = 0


(***************************************************************************)
(* statem_clear, statem_set_renegotiate, statem_set_error: the owner of    *)
(* the connection calls them between calls of state_machine().             *)
(***************************************************************************)
\* The observation describes the operation that acted last: an API
\* operation ends the observation of the call of state_machine() before it.
ApiFrame(op) ==
    /\ last_op' = op
    /\ ret' = 0
    /\ ssret' = "none"
    /\ entry_state' = "none"
    /\ did_init' = FALSE
    /\ susp' = "none"
    /\ resume_from' = "none"
    /\ first_step' = "none"
    /\ alert' = "none"
    /\ trace' = <<>>
    /\ init_step' = "none"
    /\ UNCHANGED <<read_state, write_state, read_state_work, write_state_work,
                   hand_state, read_state_first_init, use_timer,
                   server, in_handshake, first_packet, init_buf, dtls, has_cb,
                   pc, server_arg, n_alerts, n_start, n_exit, n_calls, n_vt,
                   n_written, hb, construct_failed>>

\* statem_clear refusing to leave the error state
statem_clear_Guarded ==
    /\ pc = "idle"
    /\ state' = IF state = "MSG_FLOW_ERROR" THEN state ELSE "MSG_FLOW_UNINITED"
    /\ UNCHANGED s_state
    /\ ApiFrame("statem_clear")

statem_clear ==
    /\ pc = "idle"
    /\ state' = "MSG_FLOW_UNINITED"
    /\ UNCHANGED s_state
    /\ ApiFrame("statem_clear")

statem_set_renegotiate ==
    /\ pc = "idle"
    /\ state' = "MSG_FLOW_RENEGOTIATE"
    /\ UNCHANGED s_state
    /\ ApiFrame("statem_set_renegotiate")

statem_set_error ==
    /\ pc = "idle"
    /\ state' = "MSG_FLOW_ERROR"
    /\ s_state' = "SSL_ST_ERR"
    /\ ApiFrame("statem_set_error")

\* AppDataAllowed forgetting the state in which the ClientHello is written
AppDataAllowed_NoClientHello(hs) ==
    IF hs # "TLS_ST_BEFORE" /\ hs # "TLS_ST_OK" THEN 0 ELSE 1

\* lines 719-724: the value statem_client_app_data_allowed() returns
AppDataAllowed(hs) ==
    IF /\ hs # "TLS_ST_BEFORE"
       /\ hs # "TLS_ST_OK"
       /\ hs # "TLS_ST_CW_CLNT_HELLO"
    THEN 0
    ELSE 1

\* statem_client_app_data_allowed(s), lines 715-725: the record layer asks
\* whether application data may be sent
statem_client_app_data_allowed ==
    /\ pc = "idle"
    /\ last_op' = "statem_client_app_data_allowed"
    /\ ret' = AppDataAllowed(hand_state)
    /\ ssret' = "none"
    /\ entry_state' = "none"
    /\ did_init' = FALSE
    /\ susp' = "none"
    /\ resume_from' = "none"
    /\ first_step' = "none"
    /\ alert' = "none"
    /\ trace' = <<>>
    /\ init_step' = "none"
    /\ UNCHANGED <<statem, conn, pc, server_arg, n_alerts, n_start, n_exit,
                   n_calls, n_vt, n_written, hb, construct_failed>>

(***************************************************************************)
(* state_machine(), from its entry to the outer loop.                      *)
(***************************************************************************)
\* SSL_in_init(s), SSL_in_before(s): the legacy state is in a handshake
SSL_in_init(ls) == ls \in {"SSL_ST_ACCEPT", "SSL_ST_CONNECT", "SSL_ST_ERR"}
SSL_in_before(ls) == ls = "SSL_ST_BEFORE"

\* lines 190-193: SSL_clear() is called
NeedsClear == ~SSL_in_init(s_state) \/ SSL_in_before(s_state)

\* lines 180-193: what every call not made in MSG_FLOW_ERROR does first;
\* clear_res is what SSL_clear() answers when it is called
EntryTrace(clear_res) ==
    <<T("ERR_clear_error", "", "")>>
        \o (IF NeedsClear THEN <<T("SSL_clear", "", clear_res)>> ELSE <<>>)

\* lines 195-206: a pending heartbeat is cancelled
HeartbeatCancel ==
    /\ hb_pending' = FALSE
    /\ hb_seq' = IF hb_pending THEN hb_seq + 1 ELSE hb_seq

\* the errors and the alert of the initialisation block ending at its step f
InitErrors(f) ==
    IF f = "family" THEN <<T("SSLerr", "ERR_R_INTERNAL_ERROR", "")>>
    ELSE IF f = "security" THEN <<T("SSLerr", "SSL_R_VERSION_TOO_LOW", "")>>
    ELSE IF f = "unsafe"
    THEN <<T("SSLerr", "SSL_R_UNSAFE_LEGACY_RENEGOTIATION_DISABLED", ""),
           T("ssl3_send_alert", "SSL_AD_HANDSHAKE_FAILURE", "")>>
    ELSE <<>>

\* the version family check of lines 232-245
VersionFamilyOK(v, srv) ==
    IF dtls
    THEN ~(/\ AndFF00(v) # AndFF00(DTLS1_VERSION)
           /\ (srv \/ AndFF00(v) # AndFF00(DTLS1_BAD_VER)))
    ELSE ~(Shr8(v) # SSL3_VERSION_MAJOR /\ v # TLS_ANY_VERSION)

\* the steps of the initialisation block that can fail, in the order of the
\* code: the first that fails ends the block ("none": all pass).  What each
\* external call answers is drawn only when the code reaches the call.
InitFailure(srv, f) ==
    \E version \in Versions :
        IF ~VersionFamilyOK(version, srv) THEN f = "family"
        ELSE \E security_ok \in BOOLEAN :
        IF version # TLS_ANY_VERSION /\ ~security_ok THEN f = "security"
        ELSE \E alloc_ok \in BOOLEAN :
        IF ~init_buf /\ ~alloc_ok THEN f = "alloc"
        ELSE \E setup_ok \in BOOLEAN :
        IF ~setup_ok THEN f = "setup"
        ELSE \E sctp \in BOOLEAN, wbio_ok \in BOOLEAN :
        IF /\ (~srv \/ state # "MSG_FLOW_RENEGOTIATE")
           /\ (~dtls \/ ~sctp)
           /\ ~wbio_ok THEN f = "wbio"
        ELSE \E send_connection_binding \in BOOLEAN, allow_unsafe \in BOOLEAN :
        IF /\ srv
           /\ state = "MSG_FLOW_RENEGOTIATE"
           /\ ~send_connection_binding
           /\ ~allow_unsafe THEN f = "unsafe"
        ELSE f = "none"

InitFailures(srv) ==
    {f \in {"family", "security", "alloc", "setup", "wbio", "unsafe", "none"} :
        InitFailure(srv, f)}

\* init_read_state_machine() starting at the body
init_read_state_machine_Body == "READ_STATE_BODY"

\* init_write_state_machine(), init_read_state_machine()
init_write_state_machine == "WRITE_STATE_TRANSITION"
init_read_state_machine == "READ_STATE_HEADER"

\* ssl3_send_alert(s, SSL3_AL_FATAL, code)
ssl3_send_alert(code) ==
    /\ alert' = code
    /\ n_alerts' = n_alerts + 1

\* End without the exit event of the info callback
End_NoExitEvent(ih, r) ==
    /\ in_handshake' = ih - 1
    /\ n_exit' = n_exit
    /\ ret' = r
    /\ pc' = "idle"

\* the "end" label, reached with in_handshake = ih and ret = r
End(ih, r) ==
    /\ in_handshake' = ih - 1
    /\ n_exit' = IF has_cb THEN n_exit + 1 ELSE n_exit
    /\ ret' = r
    /\ pc' = "idle"

\* EnterInError leaving through the "end" label instead of returning at once
EnterInError_ViaEnd ==
    /\ alert' = "none"
    /\ End(in_handshake, -1)
    /\ trace' = <<>>
    /\ init_step' = "none"
    /\ UNCHANGED <<statem, s_state, server, first_packet, init_buf, dtls, has_cb,
                   n_alerts, n_start, n_vt, n_written, hb, construct_failed>>

\* lines 175-178: called in the error state
EnterInError ==
    /\ ret' = -1
    /\ alert' = "none"
    /\ trace' = <<>>
    /\ init_step' = "none"
    /\ UNCHANGED <<statem, conn, pc, n_alerts, n_start, n_exit,
                   n_vt, n_written, hb, construct_failed>>

\* lines 190-193: SSL_clear() failed
EnterClearFailed ==
    /\ in_handshake' = in_handshake + 1
    /\ ret' = -1
    /\ alert' = "none"
    /\ trace' = EntryTrace("0")
    /\ init_step' = "none"
    /\ UNCHANGED <<statem, s_state, server, first_packet, init_buf, dtls, has_cb,
                   pc, n_alerts, n_start, n_exit, n_vt, n_written, hb, construct_failed>>

\* InitFlowState switching to MSG_FLOW_WRITING before the write buffer is
\* pushed
InitFlowState_WritingBeforeWbio(f) ==
    IF f = "unsafe" THEN "MSG_FLOW_ERROR"
    ELSE IF f \in {"none", "wbio"} THEN "MSG_FLOW_WRITING"
    ELSE state

\* InitFlowState without the statem_set_error() of line 307
InitFlowState_UnsafeNotLatched(f) ==
    IF f = "none" THEN "MSG_FLOW_WRITING" ELSE state

\* st->state after the initialisation block that ended at its step f: the
\* refusal of an unsafe renegotiation calls statem_set_error() (line 307),
\* the other failures leave st->state alone, success sets it (line 330)
InitFlowState(f) ==
    IF f = "unsafe" THEN "MSG_FLOW_ERROR"
    ELSE IF f = "none" THEN "MSG_FLOW_WRITING"
    ELSE state

\* SeedHandState seeding the handshake state of a renegotiation as well
SeedHandState_AlsoOnRenegotiate ==
    IF state \in {"MSG_FLOW_UNINITED", "MSG_FLOW_RENEGOTIATE"}
    THEN "TLS_ST_BEFORE" ELSE hand_state

\* lines 224-226: st->hand_state after the initialisation block
SeedHandState ==
    IF state = "MSG_FLOW_UNINITED" THEN "TLS_ST_BEFORE" ELSE hand_state

\* lines 217-333: the initialisation block, ending at its step f
EnterInit(srv, f) ==
    /\ server' = srv
    /\ n_start' = IF has_cb THEN n_start + 1 ELSE n_start
    /\ hand_state' = SeedHandState
    /\ init_buf' = (init_buf \/ f \notin {"family", "security", "alloc"})
    /\ s_state' = IF f = "unsafe" THEN "SSL_ST_ERR"
                  ELSE IF srv THEN "SSL_ST_ACCEPT" ELSE "SSL_ST_CONNECT"
    /\ alert' = IF f = "unsafe" THEN "SSL_AD_HANDSHAKE_FAILURE" ELSE "none"
    /\ n_alerts' = IF f = "unsafe" THEN n_alerts + 1 ELSE n_alerts
    /\ state' = InitFlowState(f)
    /\ write_state' = IF f = "none" THEN init_write_state_machine ELSE write_state
    /\ read_state_first_init' = IF f = "none" THEN TRUE ELSE read_state_first_init
    /\ use_timer' = IF f = "none" /\ ~srv /\ dtls THEN TRUE ELSE use_timer
    /\ IF f = "none"
       THEN /\ in_handshake' = in_handshake + 1
            /\ ret' = -1
            /\ pc' = "loop"
            /\ UNCHANGED n_exit
       ELSE End(in_handshake + 1, -1)
    /\ HeartbeatCancel
    /\ trace' = EntryTrace("1") \o Cb("SSL_CB_HANDSHAKE_START") \o InitErrors(f)
    /\ init_step' = f
    /\ construct_failed' = IF f = "none" THEN FALSE ELSE construct_failed
    /\ UNCHANGED <<read_state, read_state_work, write_state_work, first_packet,
                   dtls, has_cb, n_vt, n_written>>

\* EnterResume initialising the sub-state machines again on every entry
EnterResume_Reinit ==
    /\ in_handshake' = in_handshake + 1
    /\ ret' = -1
    /\ pc' = "loop"
    /\ alert' = "none"
    /\ read_state' = init_read_state_machine
    /\ write_state' = init_write_state_machine
    /\ HeartbeatCancel
    /\ trace' = EntryTrace("1")
    /\ init_step' = "none"
    /\ UNCHANGED construct_failed
    /\ UNCHANGED <<state, read_state_work, write_state_work, hand_state,
                   read_state_first_init, use_timer,
                   s_state, server, first_packet, init_buf, dtls, has_cb,
                   n_alerts, n_start, n_exit, n_vt, n_written>>

\* EnterResume announcing the start of a handshake again
EnterResume_StartEvent ==
    /\ in_handshake' = in_handshake + 1
    /\ ret' = -1
    /\ pc' = "loop"
    /\ alert' = "none"
    /\ HeartbeatCancel
    /\ n_start' = IF has_cb THEN n_start + 1 ELSE n_start
    /\ trace' = EntryTrace("1") \o Cb("SSL_CB_HANDSHAKE_START")
    /\ init_step' = "none"
    /\ UNCHANGED construct_failed
    /\ UNCHANGED <<statem, s_state, server, first_packet, init_buf, dtls, has_cb,
                   n_alerts, n_exit, n_vt, n_written>>

\* lines 217, 335: entered in MSG_FLOW_READING or MSG_FLOW_WRITING
EnterResume ==
    /\ in_handshake' = in_handshake + 1
    /\ ret' = -1
    /\ pc' = "loop"
    /\ alert' = "none"
    /\ HeartbeatCancel
    /\ trace' = EntryTrace("1")
    /\ init_step' = "none"
    /\ UNCHANGED construct_failed
    /\ UNCHANGED <<statem, s_state, server, first_packet, init_buf, dtls, has_cb,
                   n_alerts, n_start, n_exit, n_vt, n_written>>

\* state_machine(s, server), lines 167-333
Enter ==
    /\ pc = "idle"
    /\ n_calls < MaxCalls
    /\ n_calls' = n_calls + 1
    /\ last_op' = "state_machine"
    /\ entry_state' = state
    /\ ssret' = "none"
    /\ susp' = "none"
    /\ first_step' = "none"
    /\ \E srv \in BOOLEAN :
        /\ server_arg' = srv
        /\ IF state = "MSG_FLOW_ERROR"
           THEN /\ EnterInError
                /\ resume_from' = "none"
                /\ did_init' = FALSE
           ELSE /\ resume_from' = IF last_op = "state_machine" THEN susp ELSE "none"
                /\ IF ~SSL_in_init(s_state) \/ SSL_in_before(s_state)
                   THEN \E clear_ok \in BOOLEAN :
                        IF ~clear_ok
                        THEN EnterClearFailed /\ did_init' = FALSE
                        ELSE IF state \in {"MSG_FLOW_UNINITED", "MSG_FLOW_RENEGOTIATE"}
                        THEN /\ \E f \in InitFailures(srv) : EnterInit(srv, f)
                             /\ did_init' = TRUE
                        ELSE EnterResume /\ did_init' = FALSE
                   ELSE IF state \in {"MSG_FLOW_UNINITED", "MSG_FLOW_RENEGOTIATE"}
                        THEN /\ \E f \in InitFailures(srv) : EnterInit(srv, f)
                             /\ did_init' = TRUE
                        ELSE EnterResume /\ did_init' = FALSE

(***************************************************************************)
(* The outer loop of state_machine(), lines 335-376.                       *)
(***************************************************************************)
SubFrame ==
    UNCHANGED <<use_timer, s_state, server, init_buf, dtls, has_cb, server_arg,
                last_op, entry_state, did_init, resume_from, n_start, n_calls,
                hb, init_step>>

\* the sub-state step "step" is executed
Executes(step) ==
    first_step' = IF first_step = "none" THEN step ELSE first_step

\* the sub-state machine goes on with the code at position p
GoOn(p) ==
    /\ pc' = p
    /\ UNCHANGED <<state, ssret, susp, in_handshake, n_exit, ret>>

\* SubStateError latching MSG_FLOW_ERROR whatever the reason of the return
SubStateError_Latch(sus) ==
    /\ ssret' = "SUB_STATE_ERROR"
    /\ susp' = sus
    /\ End(in_handshake, -1)
    /\ state' = "MSG_FLOW_ERROR"

\* the sub-state machine returned SUB_STATE_ERROR (lines 341-343, 352-354);
\* sus names the step when this is an NBIO suspension
SubStateError(sus) ==
    /\ ssret' = "SUB_STATE_ERROR"
    /\ susp' = sus
    /\ End(in_handshake, -1)
    /\ UNCHANGED state

\* ReadSubStateFinished taking SUB_STATE_FINISHED for the end of the handshake
ReadSubStateFinished_EndsHandshake ==
    /\ ssret' = "SUB_STATE_FINISHED"
    /\ state' = "MSG_FLOW_FINISHED"
    /\ write_state' = init_write_state_machine
    /\ pc' = "loop"
    /\ UNCHANGED <<susp, in_handshake, n_exit, ret>>

\* read_state_machine() returned SUB_STATE_FINISHED (lines 338-340)
ReadSubStateFinished ==
    /\ ssret' = "SUB_STATE_FINISHED"
    /\ state' = "MSG_FLOW_WRITING"
    /\ write_state' = init_write_state_machine
    /\ pc' = "loop"
    /\ UNCHANGED <<susp, in_handshake, n_exit, ret>>

\* WriteSubStateFinished returning to the caller when the write side is done
WriteSubStateFinished_Returns ==
    /\ ssret' = "SUB_STATE_FINISHED"
    /\ state' = "MSG_FLOW_READING"
    /\ read_state' = init_read_state_machine
    /\ End(in_handshake, -1)
    /\ UNCHANGED susp

\* write_state_machine() returned SUB_STATE_FINISHED (lines 347-349)
WriteSubStateFinished ==
    /\ ssret' = "SUB_STATE_FINISHED"
    /\ state' = "MSG_FLOW_READING"
    /\ read_state' = init_read_state_machine
    /\ pc' = "loop"
    /\ UNCHANGED <<susp, in_handshake, n_exit, ret>>

\* write_state_machine() returned SUB_STATE_END_HANDSHAKE (lines 350-351)
WriteSubStateEndHandshake ==
    /\ ssret' = "SUB_STATE_END_HANDSHAKE"
    /\ state' = "MSG_FLOW_FINISHED"
    /\ pc' = "loop"
    /\ UNCHANGED <<read_state, susp, in_handshake, n_exit, ret>>

\* lines 335-361: the loop test and the dispatch on st->state; entering
\* read_state_machine() runs its first-init hook (lines 443-446)
LoopTop ==
    /\ pc = "loop"
    /\ state # "MSG_FLOW_FINISHED"
    /\ IF state = "MSG_FLOW_READING"
       THEN /\ pc' = "rsm"
            /\ first_packet' = IF read_state_first_init THEN TRUE ELSE first_packet
            /\ read_state_first_init' = FALSE
            /\ UNCHANGED <<state, s_state, in_handshake, n_exit, ret>>
       ELSE IF state = "MSG_FLOW_WRITING"
       THEN /\ pc' = "wsm"
            /\ UNCHANGED <<state, s_state, in_handshake, n_exit, ret,
                           first_packet, read_state_first_init>>
       ELSE /\ state' = "MSG_FLOW_ERROR"
            /\ s_state' = "SSL_ST_ERR"
            /\ End(in_handshake, -1)
            /\ UNCHANGED <<first_packet, read_state_first_init>>
    /\ UNCHANGED <<read_state, write_state, read_state_work, write_state_work,
                   hand_state, use_timer, server, init_buf, dtls, has_cb,
                   server_arg, ssret, obs, hb, init_step, construct_failed>>
    /\ trace' = <<>>

\* Finish without the reset of st->state (line 363)
Finish_NoReset ==
    /\ pc = "loop"
    /\ state = "MSG_FLOW_FINISHED"
    /\ End(in_handshake, 1)
    /\ UNCHANGED <<state, read_state, write_state, read_state_work, write_state_work,
                   hand_state, read_state_first_init, first_packet, ssret, susp,
                   first_step, alert, n_alerts, n_vt, n_written,
                   construct_failed>>
    /\ trace' = <<>>
    /\ SubFrame

\* lines 335, 363-376: the loop ends in MSG_FLOW_FINISHED
Finish ==
    /\ pc = "loop"
    /\ state = "MSG_FLOW_FINISHED"
    /\ state' = "MSG_FLOW_UNINITED"
    /\ End(in_handshake, 1)
    /\ UNCHANGED <<read_state, write_state, read_state_work, write_state_work,
                   hand_state, read_state_first_init, first_packet, ssret, susp,
                   first_step, alert, n_alerts, n_vt, n_written,
                   construct_failed>>
    /\ trace' = <<>>
    /\ SubFrame

(***************************************************************************)
(* read_state_machine(), lines 448-543.                                    *)
(***************************************************************************)
\* the event of lines 460-465 and 637-642
LoopEvent == IF server THEN "SSL_CB_ACCEPT_LOOP" ELSE "SSL_CB_CONNECT_LOOP"

\* ReadHeaderCalls notifying the callback before it tests the header's result
ReadHeaderCalls_LoopBeforeTest(got, message_size) ==
    <<T("tls_get_message_header", IF got THEN ToString(message_size) ELSE "",
        IF got THEN "1" ELSE "0")>> \o Cb(LoopEvent)

\* lines 451-466: tls_get_message_header() and, when it obtained a header
\* (of a message of message_size bytes), the notification of the callback
ReadHeaderCalls(got, message_size) ==
    IF ~got
    THEN <<T("tls_get_message_header", "", "0")>>
    ELSE <<T("tls_get_message_header", ToString(message_size), "1")>>
            \o Cb(LoopEvent)

\* SizeExceeded refusing a message of exactly the largest size
SizeExceeded_OffByOne(message_size, max_message_size) ==
    message_size >= max_message_size

\* line 477: s->s3->tmp.message_size > max_message_size(s)
SizeExceeded(message_size, max_message_size) ==
    message_size > max_message_size

\* case READ_STATE_HEADER, lines 450-484
ReadHeader ==
    /\ pc = "rsm"
    /\ read_state = "READ_STATE_HEADER"
    /\ Executes("READ_STATE_HEADER")
    /\ \E got \in BOOLEAN, allowed \in BOOLEAN, hs \in HandStates,
          message_size \in 0..MaxMsgSize, max_message_size \in 0..MaxMsgSize :
        IF ~got
        THEN \* tls_get_message_header() returned 0
             /\ SubStateError("READ_STATE_HEADER")
             /\ trace' = ReadHeaderCalls(got, message_size)
             /\ UNCHANGED <<read_state, hand_state, alert, n_alerts, n_vt>>
        ELSE IF ~allowed
        THEN \* transition(s, mt) returned 0
             /\ n_vt < MaxVt
             /\ n_vt' = n_vt + 1
             /\ ssl3_send_alert("SSL3_AD_UNEXPECTED_MESSAGE")
             /\ SubStateError("none")
             /\ trace' = ReadHeaderCalls(got, message_size)
                    \o <<T("transition", "mt", "0"),
                         T("ssl3_send_alert", "SSL3_AD_UNEXPECTED_MESSAGE", ""),
                         T("SSLerr", "SSL_R_UNEXPECTED_MESSAGE", "")>>
             /\ UNCHANGED <<read_state, hand_state>>
        ELSE IF SizeExceeded(message_size, max_message_size)
        THEN /\ n_vt < MaxVt
             /\ n_vt' = n_vt + 1
             /\ hand_state' = hs
             /\ ssl3_send_alert("SSL_AD_ILLEGAL_PARAMETER")
             /\ SubStateError("none")
             /\ trace' = ReadHeaderCalls(got, message_size)
                    \o <<T("transition", "mt", "1"),
                         T("max_message_size", "", ToString(max_message_size)),
                         T("ssl3_send_alert", "SSL_AD_ILLEGAL_PARAMETER", ""),
                         T("SSLerr", "SSL_R_EXCESSIVE_MESSAGE_SIZE", "")>>
             /\ UNCHANGED read_state
        ELSE /\ n_vt < MaxVt
             /\ n_vt' = n_vt + 1
             /\ hand_state' = hs
             /\ read_state' = "READ_STATE_BODY"
             /\ GoOn("body")
             /\ trace' = ReadHeaderCalls(got, message_size)
                    \o <<T("transition", "mt", "1"),
                         T("max_message_size", "", ToString(max_message_size))>>
             /\ UNCHANGED <<alert, n_alerts>>
    /\ UNCHANGED <<write_state, read_state_work, write_state_work,
                   read_state_first_init, first_packet, n_written,
                   construct_failed>>
    /\ SubFrame

\* lines 487-494: tls_get_message_body(), which DTLS does not call
ReadBodyCalls(got) ==
    IF dtls THEN <<>>
    ELSE <<T("tls_get_message_body", "", IF got THEN "1" ELSE "0")>>

\* case READ_STATE_BODY, lines 486-515
ReadBody ==
    /\ \/ pc = "rsm" /\ read_state = "READ_STATE_BODY"
       \/ pc = "body"
    /\ Executes("READ_STATE_BODY")
    /\ \E got \in BOOLEAN, r \in MsgProcessReturns :
        IF ~dtls /\ ~got
        THEN \* tls_get_message_body() returned 0
             /\ SubStateError("READ_STATE_BODY")
             /\ trace' = ReadBodyCalls(got)
             /\ UNCHANGED <<read_state, write_state, read_state_work, first_packet, n_vt>>
        ELSE /\ n_vt < MaxVt
             /\ n_vt' = n_vt + 1
             /\ first_packet' = FALSE
             /\ trace' = ReadBodyCalls(got) \o <<T("process_message", "", r)>>
             /\ IF r = "MSG_PROCESS_ERROR"
                THEN /\ SubStateError("none")
                     /\ UNCHANGED <<read_state, write_state, read_state_work>>
                ELSE IF r = "MSG_PROCESS_FINISHED_READING"
                THEN /\ ReadSubStateFinished
                     /\ UNCHANGED <<read_state, read_state_work>>
                ELSE IF r = "MSG_PROCESS_CONTINUE_PROCESSING"
                THEN /\ read_state' = "READ_STATE_POST_PROCESS"
                     /\ read_state_work' = "WORK_MORE_A"
                     /\ GoOn("rsm")
                     /\ UNCHANGED write_state
                ELSE /\ read_state' = "READ_STATE_HEADER"
                     /\ GoOn("rsm")
                     /\ UNCHANGED <<write_state, read_state_work>>
    /\ UNCHANGED <<write_state_work, hand_state, read_state_first_init,
                   alert, n_alerts, n_written, construct_failed>>
    /\ SubFrame

\* WorkArg starting every invocation of a work callback afresh
WorkArg_Restart(wst) == "WORK_MORE_A"

\* lines 518, 659, 688: the token handed to post_process_message, pre_work,
\* post_work is the one stored in read_state_work / write_state_work
WorkArg(wst) == wst

\* case READ_STATE_POST_PROCESS, lines 517-533
ReadPostProcess ==
    /\ pc = "rsm"
    /\ read_state = "READ_STATE_POST_PROCESS"
    /\ Executes("READ_STATE_POST_PROCESS")
    /\ n_vt < MaxVt
    /\ n_vt' = n_vt + 1
    /\ \E w \in WorkStates :
        /\ read_state_work' = w
        /\ trace' = <<T("post_process_message", WorkArg(read_state_work), w)>>
        /\ IF w = "WORK_FINISHED_CONTINUE"
           THEN /\ read_state' = "READ_STATE_HEADER"
                /\ GoOn("rsm")
                /\ UNCHANGED write_state
           ELSE IF w = "WORK_FINISHED_STOP"
           THEN /\ ReadSubStateFinished
                /\ UNCHANGED read_state
           ELSE /\ SubStateError(IF w \in WorkMore THEN "READ_STATE_POST_PROCESS"
                                 ELSE "none")
                /\ UNCHANGED <<read_state, write_state>>
    /\ UNCHANGED <<write_state_work, hand_state, read_state_first_init,
                   first_packet, alert, n_alerts, n_written, construct_failed>>
    /\ SubFrame

(***************************************************************************)
(* write_state_machine(), lines 633-705.                                   *)
(***************************************************************************)
\* case WRITE_STATE_TRANSITION, lines 635-656
WriteTransition ==
    /\ pc = "wsm"
    /\ write_state = "WRITE_STATE_TRANSITION"
    /\ Executes("WRITE_STATE_TRANSITION")
    /\ n_vt < MaxVt
    /\ n_vt' = n_vt + 1
    /\ \E t \in WriteTrans, hs \in HandStates :
        /\ trace' = Cb(LoopEvent) \o <<T("transition", "", t)>>
        /\ IF t = "WRITE_TRAN_CONTINUE"
           THEN /\ hand_state' = hs
                /\ write_state' = "WRITE_STATE_PRE_WORK"
                /\ write_state_work' = "WORK_MORE_A"
                /\ GoOn("wsm")
                /\ UNCHANGED read_state
           ELSE IF t = "WRITE_TRAN_FINISHED"
           THEN /\ WriteSubStateFinished
                /\ UNCHANGED <<hand_state, write_state, write_state_work>>
           ELSE /\ SubStateError("none")
                /\ UNCHANGED <<hand_state, read_state, write_state,
                               write_state_work>>
    /\ UNCHANGED <<read_state_work, read_state_first_init, first_packet,
                   alert, n_alerts, n_written, construct_failed>>
    /\ SubFrame

\* case WRITE_STATE_PRE_WORK, lines 658-673
WritePreWork ==
    /\ pc = "wsm"
    /\ write_state = "WRITE_STATE_PRE_WORK"
    /\ Executes("WRITE_STATE_PRE_WORK")
    /\ n_vt < MaxVt
    /\ \E w \in WorkStates, constructed \in BOOLEAN :
        /\ write_state_work' = w
        /\ IF w = "WORK_FINISHED_CONTINUE"
           THEN /\ write_state' = "WRITE_STATE_SEND"
                /\ n_vt' = n_vt + 2
                /\ trace' = <<T("pre_work", WorkArg(write_state_work), w),
                              T("construct_message", "",
                                IF constructed THEN "1" ELSE "0")>>
                /\ construct_failed' = ~constructed
                /\ IF constructed
                   THEN GoOn("send")
                   ELSE SubStateError("none")
           ELSE IF w = "WORK_FINISHED_STOP"
           THEN /\ n_vt' = n_vt + 1
                /\ trace' = <<T("pre_work", WorkArg(write_state_work), w)>>
                /\ WriteSubStateEndHandshake
                /\ UNCHANGED <<write_state, construct_failed>>
           ELSE /\ n_vt' = n_vt + 1
                /\ trace' = <<T("pre_work", WorkArg(write_state_work), w)>>
                /\ SubStateError(IF w \in WorkMore THEN "WRITE_STATE_PRE_WORK"
                                 ELSE "none")
                /\ UNCHANGED <<write_state, construct_failed>>
    /\ UNCHANGED <<read_state, read_state_work, hand_state, read_state_first_init,
                   first_packet, alert, n_alerts, n_written>>
    /\ SubFrame

\* WriteSendCalls constructing the message again when the step is resumed
WriteSendCalls_Reconstruct(written) ==
    (IF pc = "wsm" THEN <<T("construct_message", "", "1")>> ELSE <<>>)
        \o <<T("statem_do_write", "", IF written THEN "1" ELSE "0")>>

\* lines 676-679: the calls of WRITE_STATE_SEND
WriteSendCalls(written) ==
    (IF dtls /\ use_timer THEN <<T("dtls1_start_timer", "", "")>> ELSE <<>>)
        \o <<T("statem_do_write", "", IF written THEN "1" ELSE "0")>>

\* WriteSend going back to WRITE_STATE_PRE_WORK when the write fails
WriteSend_BackToPreWork ==
    /\ \/ pc = "wsm" /\ write_state = "WRITE_STATE_SEND"
       \/ pc = "send"
    /\ Executes("WRITE_STATE_SEND")
    /\ \E written \in BOOLEAN :
        IF ~written
        THEN /\ SubStateError("WRITE_STATE_SEND")
             /\ write_state' = "WRITE_STATE_PRE_WORK"
             /\ trace' = WriteSendCalls(written)
             /\ UNCHANGED <<write_state_work, n_written, construct_failed>>
        ELSE /\ write_state' = "WRITE_STATE_POST_WORK"
             /\ write_state_work' = "WORK_MORE_A"
             /\ n_written' = n_written + 1
             /\ construct_failed' = FALSE
             /\ trace' = WriteSendCalls(written)
             /\ GoOn("post_work")
    /\ UNCHANGED <<read_state, read_state_work, hand_state, read_state_first_init,
                   first_packet, alert, n_alerts, n_vt>>
    /\ SubFrame

\* case WRITE_STATE_SEND, lines 675-685
WriteSend ==
    /\ \/ pc = "wsm" /\ write_state = "WRITE_STATE_SEND"
       \/ pc = "send"
    /\ Executes("WRITE_STATE_SEND")
    /\ \E written \in BOOLEAN :
        IF ~written
        THEN \* statem_do_write() returned <= 0
             /\ SubStateError("WRITE_STATE_SEND")
             /\ trace' = WriteSendCalls(written)
             /\ UNCHANGED <<write_state, write_state_work, n_written,
                            construct_failed>>
        ELSE /\ write_state' = "WRITE_STATE_POST_WORK"
             /\ write_state_work' = "WORK_MORE_A"
             /\ n_written' = n_written + 1
             /\ construct_failed' = FALSE
             /\ trace' = WriteSendCalls(written)
             /\ GoOn("post_work")
    /\ UNCHANGED <<read_state, read_state_work, hand_state, read_state_first_init,
                   first_packet, alert, n_alerts, n_vt>>
    /\ SubFrame

\* case WRITE_STATE_POST_WORK, lines 687-699
WritePostWork ==
    /\ \/ pc = "wsm" /\ write_state = "WRITE_STATE_POST_WORK"
       \/ pc = "post_work"
    /\ Executes("WRITE_STATE_POST_WORK")
    /\ n_vt < MaxVt
    /\ n_vt' = n_vt + 1
    /\ \E w \in WorkStates :
        /\ write_state_work' = w
        /\ trace' = <<T("post_work", WorkArg(write_state_work), w)>>
        /\ IF w = "WORK_FINISHED_CONTINUE"
           THEN /\ write_state' = "WRITE_STATE_TRANSITION"
                /\ GoOn("wsm")
           ELSE IF w = "WORK_FINISHED_STOP"
           THEN /\ WriteSubStateEndHandshake
                /\ UNCHANGED write_state
           ELSE /\ SubStateError(IF w \in WorkMore THEN "WRITE_STATE_POST_WORK"
                                 ELSE "none")
                /\ UNCHANGED write_state
    /\ UNCHANGED <<read_state, read_state_work, hand_state, read_state_first_init,
                   first_packet, alert, n_alerts, n_written, construct_failed>>
    /\ SubFrame

(***************************************************************************)
(* The specification.                                                      *)
(***************************************************************************)
Next ==
    \/ statem_clear
    \/ statem_set_renegotiate
    \/ statem_set_error
    \/ statem_client_app_data_allowed
    \/ Enter
    \/ LoopTop
    \/ Finish
    \/ ReadHeader
    \/ ReadBody
    \/ ReadPostProcess
    \/ WriteTransition
    \/ WritePreWork
    \/ WriteSend
    \/ WritePostWork

Spec == Init /\ [][Next]_vars

(***************************************************************************)
(* The specification with the heartbeat extension in use: between the      *)
(* calls of state_machine() the owner of the connection may have sent a    *)
(* HeartbeatRequest (tls1_heartbeat), which sets s->tlsext_hb_pending.     *)
(* An info callback is installed and the connection is a TLS one.          *)
(***************************************************************************)
tls1_heartbeat ==
    /\ pc = "idle"
    /\ ~hb_pending
    /\ hb_seq < MaxHb
    /\ hb_pending' = TRUE
    /\ trace' = <<>>
    /\ UNCHANGED <<statem, conn, call, obs, hb_seq, init_step, construct_failed>>

InitHb == Init /\ has_cb /\ ~dtls

NextHb == Next \/ tls1_heartbeat

SpecHb == InitHb /\ [][NextHb]_vars


(***************************************************************************)
(* Properties.                                                             *)
(***************************************************************************)
\* the step is the entry of a call of state_machine()
IsCall == n_calls' = n_calls + 1

\* the state is the one a call of state_machine() returned in
Returned == pc = "idle" /\ last_op = "state_machine"

\* C1: a call of state_machine() made in MSG_FLOW_ERROR returns a value <= 0,
\* leaves the state MSG_FLOW_ERROR and changes nothing else: no info callback
\* event, no alert, no vtable or record layer call, in_handshake as it was.
C1_StickyError ==
    [][(IsCall /\ state = "MSG_FLOW_ERROR") =>
          /\ ret' <= 0
          /\ state' = "MSG_FLOW_ERROR"
          /\ pc' = "idle"
          /\ UNCHANGED <<statem, conn, n_alerts, n_start, n_exit, n_vt, n_written>>]_vars

C1_Witness ==
    /\ Returned
    /\ entry_state = "MSG_FLOW_ERROR"
    /\ state = "MSG_FLOW_ERROR"
    /\ ret = -1
    /\ n_calls >= 2

C3_ProtocolViolationLatchesError ==
    (Returned /\ alert \in {"SSL3_AD_UNEXPECTED_MESSAGE", "SSL_AD_ILLEGAL_PARAMETER"})
        => (ret <= 0 /\ state = "MSG_FLOW_ERROR")


\* the message flow state a sub-state step belongs to
FlowOf(step) ==
    IF step \in ReadSteps THEN "MSG_FLOW_READING" ELSE "MSG_FLOW_WRITING"

\* the sub-state of the sub-state machine st->state selects
ActiveSubState ==
    IF state = "MSG_FLOW_READING" THEN read_state
    ELSE IF state = "MSG_FLOW_WRITING" THEN write_state
    ELSE "none"

\* C4: a call that suspends on NBIO (the transport would block, or a work
\* callback returned WORK_MORE_*) returns with st->state and the active
\* sub-state those of the suspended step, and the call after it runs no
\* initialisation and executes that step first.
C4_SuspensionPreservesCursor ==
    /\ (Returned /\ susp # "none")
          => (state = FlowOf(susp) /\ ActiveSubState = susp /\ ret <= 0)
    /\ resume_from # "none"
          => /\ ~did_init
             /\ entry_state = FlowOf(resume_from)
             /\ first_step \in {"none", resume_from}

C4_Witness ==
    /\ resume_from = "READ_STATE_BODY"
    /\ first_step = "READ_STATE_BODY"
    /\ ~dtls

\* what the vtable and the peer see of the handshake: the cursor of the
\* state machine, the work tokens handed to the callbacks, the handshake
\* state, the number of vtable invocations and of messages written
Visible ==
    <<state, read_state, write_state, read_state_work, write_state_work,
      hand_state, n_vt, n_written>>

\* the steps at which the transport can block
TransportSteps == {"READ_STATE_HEADER", "READ_STATE_BODY", "WRITE_STATE_SEND"}

\* C5: a block of the transport is invisible. The step that blocks, the
\* return, the entry of the next call and its way back to the blocked step
\* change nothing the vtable or the peer see, and the first step executed after
\* the entry is the blocked one: the vtable invocations, the messages written
\* and hand_state are those of the run in which the transport did not block.
C5_NBIOIdempotence ==
    /\ [][(\/ susp' \in TransportSteps /\ susp = "none" /\ pc # "idle"
           \/ Returned /\ susp \in TransportSteps /\ IsCall
           \/ resume_from \in TransportSteps /\ first_step = "none"
                 /\ first_step' = "none")
          => UNCHANGED Visible]_vars
    /\ [](resume_from \in TransportSteps /\ pc \in {"rsm", "wsm"}
             /\ first_step = "none"
          => ActiveSubState = resume_from)
    /\ [](resume_from \in TransportSteps => first_step \in {"none", resume_from})

C5_Witness ==
    /\ resume_from = "WRITE_STATE_SEND"
    /\ first_step = "WRITE_STATE_SEND"
    /\ write_state = "WRITE_STATE_POST_WORK"
    /\ n_written = 1

\* C6: a call returns 1 exactly when write_state_machine() reported
\* SUB_STATE_END_HANDSHAKE in it, and then st->state is MSG_FLOW_UNINITED;
\* every other call returns <= 0, and st->state is MSG_FLOW_UNINITED then only
\* when the call was entered in MSG_FLOW_UNINITED and ran no sub-state machine.
C6_ReturnValue ==
    Returned =>
        /\ ret = 1 <=> ssret = "SUB_STATE_END_HANDSHAKE"
        /\ ret = 1 => state = "MSG_FLOW_UNINITED"
        /\ ret # 1 =>
              /\ ret <= 0
              /\ state = "MSG_FLOW_UNINITED"
                    => (entry_state = "MSG_FLOW_UNINITED" /\ ssret = "none")

C6_Witness ==
    /\ Returned
    /\ ret = 1
    /\ ssret = "SUB_STATE_END_HANDSHAKE"
    /\ state = "MSG_FLOW_UNINITED"

\* the call suspended on the first tls_get_message_header() of the handshake:
\* no message was processed since the reading started
FirstHeaderBlocked ==
    /\ Returned
    /\ susp = "READ_STATE_HEADER"
    /\ first_packet

\* C7 as claimed: when the first tls_get_message_header() of a handshake
\* would block, the call returns exactly 0 with st->state MSG_FLOW_READING and
\* read_state READ_STATE_HEADER.
C7_FirstHeaderBlockedReturnsZero ==
    FirstHeaderBlocked =>
        /\ ret = 0
        /\ state = "MSG_FLOW_READING"
        /\ read_state = "READ_STATE_HEADER"

\* C7 as amended: the call returns -1 (not 0), with st->state
\* MSG_FLOW_READING and read_state READ_STATE_HEADER.
C7_FirstHeaderBlockedReturnsMinusOne ==
    FirstHeaderBlocked =>
        /\ ret = -1
        /\ state = "MSG_FLOW_READING"
        /\ read_state = "READ_STATE_HEADER"

C7_Witness ==
    /\ FirstHeaderBlocked
    /\ did_init
    /\ n_calls = 1

\* C8: in a call of state_machine() st->state leaves MSG_FLOW_WRITING only for
\* MSG_FLOW_READING, MSG_FLOW_FINISHED or MSG_FLOW_ERROR, and leaves
\* MSG_FLOW_READING only for MSG_FLOW_WRITING or MSG_FLOW_ERROR.
C8_Alternation ==
    [][last_op' = "state_machine" =>
          /\ (state = "MSG_FLOW_WRITING" /\ state' # state)
                => state' \in {"MSG_FLOW_READING", "MSG_FLOW_FINISHED",
                               "MSG_FLOW_ERROR"}
          /\ (state = "MSG_FLOW_READING" /\ state' # state)
                => state' \in {"MSG_FLOW_WRITING", "MSG_FLOW_ERROR"}]_vars

C8_Witness ==
    /\ pc = "loop"
    /\ state = "MSG_FLOW_WRITING"
    /\ ssret = "SUB_STATE_FINISHED"
    /\ read_state = "READ_STATE_BODY"

\* C9: a step that moves st->state into MSG_FLOW_WRITING sets write_state to
\* WRITE_STATE_TRANSITION, and one that moves it into MSG_FLOW_READING sets
\* read_state to READ_STATE_HEADER, whatever the sub-state was before.
C9_SubStateResetOnEntry ==
    [][/\ (state' = "MSG_FLOW_WRITING" /\ state # state')
             => write_state' = "WRITE_STATE_TRANSITION"
       /\ (state' = "MSG_FLOW_READING" /\ state # state')
             => read_state' = "READ_STATE_HEADER"]_vars

\* a second handshake starts after the first ended in WRITE_STATE_PRE_WORK or
\* WRITE_STATE_POST_WORK
C9_Witness ==
    /\ pc = "loop"
    /\ did_init
    /\ state = "MSG_FLOW_WRITING"
    /\ write_state = "WRITE_STATE_TRANSITION"
    /\ write_state_work = "WORK_FINISHED_STOP"

\* C10 as claimed: with an info callback installed there are as many
\* SSL_CB_HANDSHAKE_START events as exit events, and every call of
\* state_machine() emits one exit event.
C10_CallbackSymmetry ==
    (pc = "idle" /\ has_cb) => (n_start = n_exit /\ n_exit = n_calls)

\* the step is the return of a call of state_machine()
IsReturn == pc' = "idle" /\ (pc # "idle" \/ IsCall)

\* C10 as amended: with an info callback installed, a call emits its exit
\* event as it returns through the "end" label, exactly one; a call made in
\* MSG_FLOW_ERROR or whose SSL_clear() fails emits none; SSL_CB_HANDSHAKE_START
\* is emitted by the calls that run the initialisation block only, so there
\* are at most as many start events as exit events.
C10_ExitEventPerReturnThroughEnd ==
    /\ [][has_cb =>
             /\ n_exit' = IF IsReturn /\ (pc # "idle" \/ did_init')
                          THEN n_exit + 1 ELSE n_exit
             /\ n_start' = IF IsCall /\ did_init' THEN n_start + 1 ELSE n_start]_vars
    /\ []((has_cb /\ pc = "idle") => (n_start <= n_exit /\ n_exit <= n_calls))

C10_Witness ==
    /\ has_cb
    /\ pc = "idle"
    /\ n_calls = 3
    /\ n_exit = 2
    /\ n_start = 1

\* the entries of the trace t that satisfy a test: LOOP events of the info
\* callback, message headers obtained, write transitions executed
Loops(t) ==
    Cardinality({i \in DOMAIN t :
        t[i][1] = "cb" /\ t[i][2] \in {"SSL_CB_ACCEPT_LOOP", "SSL_CB_CONNECT_LOOP"}})
HeadersObtained(t) ==
    Cardinality({i \in DOMAIN t :
        t[i][1] = "tls_get_message_header" /\ t[i][3] = "1"})
WriteTransitions(t) ==
    Cardinality({i \in DOMAIN t : t[i][1] = "transition" /\ t[i][3] \in WriteTrans})

\* C11: with an info callback installed, a step emits one LOOP event for each
\* message header it obtains and one for each write transition it executes,
\* and no other; every execution of WRITE_STATE_TRANSITION is one write
\* transition.  So the step a call resumes at after an NBIO suspension
\* (READ_STATE_HEADER still blocked, READ_STATE_BODY, READ_STATE_POST_PROCESS,
\* WRITE_STATE_PRE_WORK, WRITE_STATE_SEND, WRITE_STATE_POST_WORK) emits no
\* LOOP event for the header or the transition before the suspension.
C11_LoopEventOncePerHeaderAndTransition ==
    [][has_cb =>
          /\ Loops(trace') = HeadersObtained(trace') + WriteTransitions(trace')
          /\ (pc = "wsm" /\ write_state = "WRITE_STATE_TRANSITION")
                => WriteTransitions(trace') = 1
          /\ (/\ resume_from # "none"
              /\ first_step = "none"
              /\ first_step' = resume_from
              /\ HeadersObtained(trace') = 0)
                => Loops(trace') = 0]_vars

\* a call resumed in READ_STATE_BODY has gone on to the next header
C11_Witness ==
    /\ has_cb
    /\ resume_from = "READ_STATE_BODY"
    /\ first_step = "READ_STATE_BODY"
    /\ HeadersObtained(trace) = 1
    /\ Loops(trace) = 1

\* C12: in_handshake is balanced: whenever no call of state_machine() is
\* running, in_handshake has the value it had before the first call (0),
\* whether the calls ended in success, NBIO, a fatal error or a failure of
\* SSL_clear().
C12_InHandshakeBalanced ==
    pc = "idle" => in_handshake = 0

\* the step made a call named name
Invoked(t, name) == \E i \in DOMAIN t : t[i][1] = name

\* the step obtained the header of a message of ms bytes, had it accepted by
\* transition() and compared its size with the answer mx of max_message_size()
SizeChecked(t, ms, mx) ==
    /\ \E i \in DOMAIN t : t[i] = T("tls_get_message_header", ToString(ms), "1")
    /\ \E i \in DOMAIN t : t[i] = T("max_message_size", "", ToString(mx))

\* C13: a header whose message_size is greater than max_message_size() makes
\* the call return <= 0 with SSL_R_EXCESSIVE_MESSAGE_SIZE raised and the
\* fatal alert SSL_AD_ILLEGAL_PARAMETER sent, without tls_get_message_body()
\* or process_message() being called and without READ_STATE_BODY being
\* entered; a header whose message_size is at most max_message_size(), equal
\* included, raises nothing and goes on to READ_STATE_BODY.
C13_SizeEnforcement ==
    \A ms \in 0..MaxMsgSize, mx \in 0..MaxMsgSize :
        SizeChecked(trace, ms, mx) =>
            IF ms > mx
            THEN /\ Returned
                 /\ ret <= 0
                 /\ \E i \in DOMAIN trace :
                        trace[i] = T("SSLerr", "SSL_R_EXCESSIVE_MESSAGE_SIZE", "")
                 /\ \E i \in DOMAIN trace :
                        trace[i] = T("ssl3_send_alert", "SSL_AD_ILLEGAL_PARAMETER", "")
                 /\ alert = "SSL_AD_ILLEGAL_PARAMETER"
                 /\ ~Invoked(trace, "tls_get_message_body")
                 /\ ~Invoked(trace, "process_message")
                 /\ read_state = "READ_STATE_HEADER"
            ELSE /\ pc = "body"
                 /\ read_state = "READ_STATE_BODY"
                 /\ ~Invoked(trace, "SSLerr")
                 /\ ~Invoked(trace, "ssl3_send_alert")

\* a message one byte over the largest size was refused
C13_Witness ==
    /\ Returned
    /\ SizeChecked(trace, MaxMsgSize, MaxMsgSize - 1)
    /\ alert = "SSL_AD_ILLEGAL_PARAMETER"

\* a message of exactly the largest size was accepted
C13_WitnessEqual ==
    /\ pc = "body"
    /\ SizeChecked(trace, MaxMsgSize, MaxMsgSize)

\* the calls of the handshake vtable
VtableCalls == {"transition", "max_message_size", "process_message",
                "post_process_message", "pre_work", "construct_message",
                "post_work"}

\* C14: a call entered as server in MSG_FLOW_RENEGOTIATE whose
\* initialisation reaches the renegotiation check with
\* send_connection_binding false and SSL_OP_ALLOW_UNSAFE_LEGACY_RENEGOTIATION
\* not set sends the fatal alert SSL_AD_HANDSHAKE_FAILURE, sets st->state to
\* MSG_FLOW_ERROR and returns <= 0 at once: st->state is never
\* MSG_FLOW_WRITING and no vtable callback is invoked.
C14_UnsafeRenegotiationRefused ==
    [][(IsCall /\ init_step' = "unsafe") =>
          /\ state = "MSG_FLOW_RENEGOTIATE"
          /\ server_arg'
          /\ alert' = "SSL_AD_HANDSHAKE_FAILURE"
          /\ n_alerts' = n_alerts + 1
          /\ state' = "MSG_FLOW_ERROR"
          /\ pc' = "idle"
          /\ ret' <= 0
          /\ n_vt' = n_vt
          /\ \A name \in VtableCalls : ~Invoked(trace', name)]_vars

C14_Witness ==
    /\ Returned
    /\ init_step = "unsafe"
    /\ entry_state = "MSG_FLOW_RENEGOTIATE"
    /\ server
    /\ state = "MSG_FLOW_ERROR"
    /\ alert = "SSL_AD_HANDSHAKE_FAILURE"

\* C15: a call whose initialisation finds the version refused by the
\* security policy (version # TLS_ANY_VERSION, ssl_security() fails) returns
\* <= 0 with SSL_R_VERSION_TOO_LOW raised and no alert sent, and leaves
\* st->state MSG_FLOW_ERROR.
C15_VersionTooLowLatchesError ==
    (Returned /\ init_step = "security") =>
        /\ ret <= 0
        /\ \E i \in DOMAIN trace :
               trace[i] = T("SSLerr", "SSL_R_VERSION_TOO_LOW", "")
        /\ alert = "none"
        /\ state = "MSG_FLOW_ERROR"

\* the step is the entry of a call that resumes a handshake
IsResume == IsCall /\ state \in {"MSG_FLOW_READING", "MSG_FLOW_WRITING"}

\* C16 as claimed: the setup steps run only in a call entered in
\* MSG_FLOW_UNINITED or MSG_FLOW_RENEGOTIATE; a call that resumes in
\* MSG_FLOW_READING or MSG_FLOW_WRITING does not clear the error queue, does
\* not call SSL_clear(), leaves the heartbeat-pending flag and the heartbeat
\* sequence unchanged and emits no SSL_CB_HANDSHAKE_START.
C16_SetupOnlyOnFreshEntry ==
    [][/\ (IsCall /\ did_init')
             => state \in {"MSG_FLOW_UNINITED", "MSG_FLOW_RENEGOTIATE"}
       /\ IsResume =>
             /\ ~Invoked(trace', "ERR_clear_error")
             /\ ~Invoked(trace', "SSL_clear")
             /\ UNCHANGED hb
             /\ n_start' = n_start]_vars

\* C16 as amended: the initialisation block runs only in a call entered in
\* MSG_FLOW_UNINITED or MSG_FLOW_RENEGOTIATE; a call that resumes in
\* MSG_FLOW_READING or MSG_FLOW_WRITING runs none of it, does not call
\* SSL_clear() and emits no SSL_CB_HANDSHAKE_START, but it runs the entry
\* steps of every call not made in MSG_FLOW_ERROR: it clears the error queue,
\* increments in_handshake and, when a heartbeat is pending, clears the
\* heartbeat-pending flag and increments the heartbeat sequence.
C16_InitBlockOnlyOnFreshEntry ==
    [][/\ (IsCall /\ did_init')
             => state \in {"MSG_FLOW_UNINITED", "MSG_FLOW_RENEGOTIATE"}
       /\ IsResume =>
             /\ ~did_init'
             /\ UNCHANGED <<statem, s_state, server, init_buf, n_start, n_alerts>>
             /\ ~Invoked(trace', "SSL_clear")
             /\ ~Invoked(trace', "cb")
             /\ Invoked(trace', "ERR_clear_error")
             /\ in_handshake' = in_handshake + 1
             /\ hb_pending' = FALSE
             /\ hb_seq' = IF hb_pending THEN hb_seq + 1 ELSE hb_seq]_vars

\* a call resumed a suspended handshake with a heartbeat pending
C16_Witness ==
    /\ pc = "loop"
    /\ ~did_init
    /\ resume_from # "none"
    /\ entry_state = "MSG_FLOW_READING"
    /\ Invoked(trace, "ERR_clear_error")
    /\ ~hb_pending
    /\ hb_seq = 1

C18_AppDataGate ==
    [][last_op' = "statem_client_app_data_allowed" =>
          /\ ret' = IF hand_state \in {"TLS_ST_BEFORE", "TLS_ST_OK",
                                       "TLS_ST_CW_CLNT_HELLO"}
                    THEN 1 ELSE 0
          /\ UNCHANGED <<statem, conn, hb, pc, n_alerts, n_start, n_exit,
                         n_calls, n_vt, n_written>>]_vars

\* application data allowed while the ClientHello is written, in the error
\* state
C18_Witness ==
    /\ last_op = "statem_client_app_data_allowed"
    /\ hand_state = "TLS_ST_CW_CLNT_HELLO"
    /\ state = "MSG_FLOW_ERROR"
    /\ ret = 1

\* application data refused
C18_WitnessRefused ==
    /\ last_op = "statem_client_app_data_allowed"
    /\ hand_state = "TLS_ST_CW_CHANGE"
    /\ ret = 0

\* the step made the call named name and got the answer result
Answered(t, name, result) ==
    \E i \in DOMAIN t : t[i][1] = name /\ t[i][3] = result

\* C19: the write cycle is ordered.  pre_work is invoked in
\* WRITE_STATE_PRE_WORK only, which a write transition answering
\* WRITE_TRAN_CONTINUE enters, and is invoked again while it answers
\* WORK_MORE_*; construct_message is invoked once, right after the pre_work
\* that answered WORK_FINISHED_CONTINUE, in the step that enters
\* WRITE_STATE_SEND, and never after a pre_work that answered
\* WORK_FINISHED_STOP; statem_do_write is invoked in WRITE_STATE_SEND, again
\* while it fails, and its success enters WRITE_STATE_POST_WORK, where
\* post_work is invoked.  A step in WRITE_STATE_SEND or WRITE_STATE_POST_WORK,
\* the one a call resumes at included, invokes neither pre_work nor
\* construct_message.
C19_WriteCycleOrdering ==
    [][/\ Invoked(trace', "pre_work")
             => (pc = "wsm" /\ write_state = "WRITE_STATE_PRE_WORK")
       /\ Invoked(trace', "construct_message")
             => /\ Len(trace') = 2
                /\ trace'[1][1] = "pre_work"
                /\ trace'[1][3] = "WORK_FINISHED_CONTINUE"
                /\ trace'[2][1] = "construct_message"
                /\ write_state = "WRITE_STATE_PRE_WORK"
                /\ write_state' = "WRITE_STATE_SEND"
       /\ Invoked(trace', "statem_do_write")
             => /\ write_state = "WRITE_STATE_SEND"
                /\ ~Invoked(trace', "pre_work")
                /\ ~Invoked(trace', "construct_message")
       /\ Invoked(trace', "post_work")
             => /\ write_state = "WRITE_STATE_POST_WORK"
                /\ ~Invoked(trace', "pre_work")
                /\ ~Invoked(trace', "construct_message")
                /\ ~Invoked(trace', "statem_do_write")
       /\ (write_state' = "WRITE_STATE_PRE_WORK" /\ write_state # write_state')
             => Answered(trace', "transition", "WRITE_TRAN_CONTINUE")
       /\ (write_state' = "WRITE_STATE_SEND" /\ write_state # write_state')
             => /\ Answered(trace', "pre_work", "WORK_FINISHED_CONTINUE")
                /\ Invoked(trace', "construct_message")
       /\ (write_state' = "WRITE_STATE_POST_WORK" /\ write_state # write_state')
             => Answered(trace', "statem_do_write", "1")
       /\ (\E w \in WorkMore : Answered(trace', "pre_work", w))
             => (write_state' = "WRITE_STATE_PRE_WORK" /\ pc' = "idle")
       /\ Answered(trace', "statem_do_write", "0")
             => (write_state' = "WRITE_STATE_SEND" /\ pc' = "idle")]_vars

\* a call resumed in WRITE_STATE_SEND wrote the message constructed by the
\* call before it
C19_Witness ==
    /\ resume_from = "WRITE_STATE_SEND"
    /\ pc = "post_work"
    /\ trace = <<T("statem_do_write", "", "1")>>

\* the work callbacks of the write sub-state machine
WriteWorkCalls == {"pre_work", "post_work"}

\* C20: the token handed to pre_work, post_work and post_process_message is
\* the stored one, and what the callback answers is stored in its place; the
\* stored token is WORK_MORE_A as WRITE_STATE_PRE_WORK, WRITE_STATE_POST_WORK
\* or READ_STATE_POST_PROCESS is entered; no other step (the return of a
\* suspended call, an operation between two calls, the entry of the next call
\* and its way to the suspended step) changes it.  So the first invocation in
\* a sub-state gets WORK_MORE_A and every later one the token the invocation
\* before it answered.
C20_WorkTokenContinuity ==
    /\ [][/\ \A i \in DOMAIN trace' :
                trace'[i][1] \in WriteWorkCalls
                   => /\ trace'[i][2] = write_state_work
                      /\ write_state_work' = trace'[i][3]
          /\ \A i \in DOMAIN trace' :
                trace'[i][1] = "post_process_message"
                   => /\ trace'[i][2] = read_state_work
                      /\ read_state_work' = trace'[i][3]
          /\ (/\ write_state' \in {"WRITE_STATE_PRE_WORK", "WRITE_STATE_POST_WORK"}
              /\ write_state # write_state')
                => write_state_work' = "WORK_MORE_A"
          /\ (read_state' = "READ_STATE_POST_PROCESS" /\ read_state # read_state')
                => read_state_work' = "WORK_MORE_A"
          /\ (/\ \A name \in WriteWorkCalls : ~Invoked(trace', name)
              /\ write_state' = write_state)
                => UNCHANGED write_state_work
          /\ (/\ ~Invoked(trace', "post_process_message")
              /\ read_state' = read_state)
                => UNCHANGED read_state_work]_vars
    /\ []((Returned /\ susp = "WRITE_STATE_PRE_WORK")
             => (write_state_work \in WorkMore
                 /\ Answered(trace, "pre_work", write_state_work)))
    /\ []((Returned /\ susp = "WRITE_STATE_POST_WORK")
             => (write_state_work \in WorkMore
                 /\ Answered(trace, "post_work", write_state_work)))
    /\ []((Returned /\ susp = "READ_STATE_POST_PROCESS")
             => (read_state_work \in WorkMore
                 /\ Answered(trace, "post_process_message", read_state_work)))

\* a call resumed in WRITE_STATE_PRE_WORK handed pre_work the WORK_MORE_B it
\* had answered in the call before
C20_Witness ==
    /\ resume_from = "WRITE_STATE_PRE_WORK"
    /\ first_step = "WRITE_STATE_PRE_WORK"
    /\ \E i \in DOMAIN trace :
           trace[i][1] = "pre_work" /\ trace[i][2] = "WORK_MORE_B"

\* C21: statem_do_write() is never invoked for the message of a write cycle
\* whose construct_message() returned 0: once the construction failed no
\* call, the failing one or a later one, writes that message.
C21_NoWriteOfUnconstructedMessage ==
    [][Invoked(trace', "statem_do_write") => ~construct_failed]_vars

\* the steps of the initialisation block whose failure is not the refusal of
\* an unsafe renegotiation
PlainInitFailures == {"family", "security", "alloc", "setup", "wbio"}

\* C22: st->state goes from MSG_FLOW_UNINITED or MSG_FLOW_RENEGOTIATE to
\* MSG_FLOW_WRITING only in the entry of a call all of whose initialisation
\* steps succeeded.  When a step other than the renegotiation check fails,
\* the call returns <= 0 with st->state as it was at the entry and without a
\* vtable callback invoked, and the call after it runs the initialisation
\* block again from its start: with an info callback installed it emits
\* SSL_CB_HANDSHAKE_START again.
C22_InitAllOrNothing ==
    [][/\ (/\ state \in {"MSG_FLOW_UNINITED", "MSG_FLOW_RENEGOTIATE"}
           /\ state' = "MSG_FLOW_WRITING")
             => (IsCall /\ did_init' /\ init_step' = "none" /\ pc' = "loop")
       /\ (IsCall /\ init_step' \in PlainInitFailures)
             => /\ state \in {"MSG_FLOW_UNINITED", "MSG_FLOW_RENEGOTIATE"}
                /\ state' = state
                /\ pc' = "idle"
                /\ ret' <= 0
                /\ n_vt' = n_vt
                /\ \A name \in VtableCalls : ~Invoked(trace', name)
       /\ (Returned /\ init_step \in PlainInitFailures /\ IsCall)
             => /\ did_init'
                /\ trace'[1] = T("ERR_clear_error", "", "")
                /\ has_cb => /\ trace'[2] = T("cb", "SSL_CB_HANDSHAKE_START", "1")
                             /\ n_start' = n_start + 1]_vars

\* the second call ran the initialisation block again, and passed it, after
\* the first had failed in it
C22_Witness ==
    /\ pc = "loop"
    /\ did_init
    /\ has_cb
    /\ n_calls = 2
    /\ n_start = 2
    /\ n_exit = 1
    /\ n_vt = 0
    /\ last_op = "state_machine"
    /\ resume_from = "none"
    /\ state = "MSG_FLOW_WRITING"
    /\ s_state = "SSL_ST_CONNECT"

(***************************************************************************)
(* Progress.  The handshake of a connection whose environment cooperates:  *)
(* the owner does nothing but call state_machine() again after each        *)
(* return, no callback reports an error and no message is refused, the     *)
(* transport and the work callbacks make the call return early only while  *)
(* another call is left, and the vtable's answers leave enough of the      *)
(* LiveVt invocations to reach a WORK_FINISHED_STOP.  The initialisation   *)
(* block and SSL_clear() remain free to fail at every call.                *)
(***************************************************************************)
\* a call of state_machine() returned 1 and left MSG_FLOW_UNINITED
Completed == Returned /\ ret = 1 /\ state = "MSG_FLOW_UNINITED"

\* the call that returned failed in SSL_clear() or in the initialisation block
SetupFailed ==
    /\ Returned
    /\ ret <= 0
    /\ (init_step # "none" \/ Answered(trace, "SSL_clear", "0"))

\* a callback reported an error or a message was refused
ReportsError(t) ==
    \E i \in DOMAIN t :
        \/ t[i][3] \in {"WORK_ERROR", "MSG_PROCESS_ERROR", "WRITE_TRAN_ERROR"}
        \/ t[i][1] \in {"transition", "construct_message"} /\ t[i][3] = "0"
        \/ t[i][1] = "ssl3_send_alert"

\* the vtable invocations the shortest way from the cursor to the end of the
\* handshake takes: transition and pre_work on the write side, before them
\* transition/max_message_size and process_message on the read side
Need ==
    IF state = "MSG_FLOW_FINISHED" \/ Completed THEN 0
    ELSE IF state = "MSG_FLOW_READING"
    THEN (IF read_state = "READ_STATE_HEADER" THEN 4 ELSE 3)
    ELSE IF state = "MSG_FLOW_WRITING"
    THEN (IF write_state = "WRITE_STATE_TRANSITION" THEN 2 ELSE 1)
    ELSE 2

\* what the environment answered in the step keeps the handshake able to
\* complete
Cooperative ==
    /\ ~ReportsError(trace')
    /\ n_vt' + Need' <= MaxVt
    /\ (pc' = "idle" /\ ret' # 1) => (n_calls' < MaxCalls \/ SetupFailed')

InitLive == Constructed /\ n_vt = MaxVt - LiveVt

NextLive ==
    \/ ~Completed /\ Enter /\ Cooperative
    \/ LoopTop /\ Cooperative
    \/ Finish /\ Cooperative
    \/ ReadHeader /\ Cooperative
    \/ ReadBody /\ Cooperative
    \/ ReadPostProcess /\ Cooperative
    \/ WriteTransition /\ Cooperative
    \/ WritePreWork /\ Cooperative
    \/ WriteSend /\ Cooperative
    \/ WritePostWork /\ Cooperative

\* the code of a call runs on, and the owner calls again after each return
SpecLive == InitLive /\ [][NextLive]_vars /\ WF_vars(NextLive)

\* a call returns on the end of the handshake, on SUB_STATE_ERROR (NBIO or
\* an error of a sub-state machine), on a failure at its entry or on an
\* invalid flow state: never on SUB_STATE_FINISHED
ReturnsOnlyWhenStuck ==
    IsReturn =>
        \/ ret' = 1 /\ ssret' = "SUB_STATE_END_HANDSHAKE"
        \/ ret' <= 0 /\ ssret' = "SUB_STATE_ERROR"
        \/ ret' <= 0 /\ IsCall
        \/ ret' <= 0 /\ state' = "MSG_FLOW_ERROR"

=============================================================================
